---- MODULE Spec2Model ----
(***************************************************************************)
(* spec2dv: the SQLite spec store (db.py), the ingest command (cli.py,     *)
(* ingest.py, models.py), the validation pass (validate.py) and the JSON   *)
(* and XML projections (export_json.py, export_xml.py).                    *)
(*                                                                         *)
(* A table is a set of rows (records); a row id is the AUTOINCREMENT       *)
(* rowid.  TEXT values are strings; binary collation is given by Ord.      *)
(* SQL NULL / Python None of a TEXT column is the string NULL.  A SELECT   *)
(* returns its rows in any order its ORDER BY allows: rows with equal      *)
(* sort keys (and all rows of a SELECT without ORDER BY) come in an order  *)
(* the engine chooses.                                                     *)
(***************************************************************************)
EXTENDS Integers, Sequences, FiniteSets, TLC

VARIABLES db, cmd, status, bundle, result

vars == <<db, cmd, status, bundle, result>>

(***************************************************************************)
(* Bounds of the model.                                                    *)
(***************************************************************************)
\* number of successful ingests (rows of spec_version) in one behaviour
MaxIngests == 2
\* most fields of a register in the validation inputs
MaxFields == 3

NULL == "NULL"

\* binary collation of the TEXT values used as names
Alphabet == <<"A", "B", "F", "G", "H", "I", "R", "S", "access", "name">>

Ord(s) == CHOOSE i \in 1..Len(Alphabet) : Alphabet[i] = s

\* ifnull(x, '')
IfNull(x) == IF x = NULL THEN "" ELSE x

Range(s) == {s[i] : i \in 1..Len(s)}

\* lexicographic <= on equally long tuples of integers
RECURSIVE KeyLe(_, _)
KeyLe(a, b) ==
    IF Len(a) = 0 THEN TRUE
    ELSE IF Head(a) < Head(b) THEN TRUE
    ELSE IF Head(a) > Head(b) THEN FALSE
    ELSE KeyLe(Tail(a), Tail(b))

\* the row sequences a SELECT ... ORDER BY k may return for the row set S
\* (each element of S is [k |-> key tuple, row |-> row])
RECURSIVE OrderBy(_)
OrderBy(S) ==
    IF S = {} THEN {<<>>}
    ELSE UNION { { <<m.row>> \o t : t \in OrderBy(S \ {m}) } :
                 m \in {x \in S : \A y \in S : KeyLe(x.k, y.k)} }

(***************************************************************************)
(* models.py                                                               *)
(***************************************************************************)
NoEnum == [null |-> TRUE, items |-> <<>>]

EnumList(items) == [null |-> FALSE, items |-> items]

EnumValue(name, value) == [name |-> name, value |-> value]

\* FieldDef._msb_ge_lsb: the validator of msb raises when msb < lsb
MsbGeLsbUnchecked(f) == TRUE

MsbGeLsb(f) == f.msb >= f.lsb

FieldDefValid(f) == MsbGeLsb(f)

RegisterDefValid(r) == \A i \in 1..Len(r.fields) : FieldDefValid(r.fields[i])

IPBlockDefValid(b) == \A i \in 1..Len(b.registers) : RegisterDefValid(b.registers[i])

\* SpecDoc.model_validate
SpecDocValid(doc) == \A i \in 1..Len(doc.ip_blocks) : IPBlockDefValid(doc.ip_blocks[i])

(***************************************************************************)
(* ingest.py                                                               *)
(***************************************************************************)
\* load_spec_bundle: the overlay only names the variant; _merge_variant
\* returns the base document unchanged
LoadSpecBundle(raw) ==
    IF SpecDocValid(raw.doc)
    THEN [ok |-> TRUE, variant_name |-> raw.variant, doc |-> raw.doc]
    ELSE [ok |-> FALSE, variant_name |-> raw.variant, doc |-> raw.doc]

(***************************************************************************)
(* db.py                                                                   *)
(***************************************************************************)
Tables == {"ip_block", "reg", "field", "enum_value", "constraint_def", "spec_version"}

\* init_db on a new file: the schema, no rows
EmptyDb ==
    [ip_block |-> {}, reg |-> {}, field |-> {}, enum_value |-> {},
     constraint_def |-> {}, spec_version |-> {},
     sqlite_sequence |-> [t \in Tables |-> 0]]

\* sqlite3.connect: a new connection; PRAGMA foreign_keys is per connection
\* and off unless the connection sets it (only init_db's script does)
ConnectDb(d) ==
    [ip_block |-> d.ip_block, reg |-> d.reg, field |-> d.field,
     enum_value |-> d.enum_value, constraint_def |-> d.constraint_def,
     spec_version |-> d.spec_version, sqlite_sequence |-> d.sqlite_sequence,
     foreign_keys |-> FALSE, err |-> ""]

\* the tables of a connection's transaction
Tx(c) ==
    [ip_block |-> c.ip_block, reg |-> c.reg, field |-> c.field,
     enum_value |-> c.enum_value, constraint_def |-> c.constraint_def,
     spec_version |-> c.spec_version, sqlite_sequence |-> c.sqlite_sequence]

\* commit placed in the finally clause: it runs after a body that raised too
ConnectDbExitAlwaysCommit(d, c) == Tx(c)

\* leaving "with connect_db(...)": commit after a body that did not raise;
\* close() alone drops the open transaction
ConnectDbExit(d, c) == IF c.err = "" THEN Tx(c) ELSE d

\* INTEGER PRIMARY KEY without AUTOINCREMENT: largest rowid in the table + 1
NextRowidMax(c, t) ==
    LET ids == {x.id : x \in c[t]}
    IN  IF ids = {} THEN 1 ELSE (CHOOSE m \in ids : \A n \in ids : n <= m) + 1

\* INTEGER PRIMARY KEY AUTOINCREMENT: one more than the largest rowid ever used
NextRowid(c, t) == c.sqlite_sequence[t] + 1

\* INSERT INTO t: the row gets the next rowid, which becomes cursor.lastrowid
Insert(c, t, row) ==
    LET id == NextRowid(c, t)
    IN  [c EXCEPT ![t] = @ \cup {[id |-> id] @@ row},
                  !.sqlite_sequence[t] = id]

LastRowid(c, t) == c.sqlite_sequence[t]

Raise(c, e) == [c EXCEPT !.err = e]

\* _get_or_create_block: [conn, id]
GetOrCreateBlock(c, name, base_addr, variant) ==
    LET found == {b \in c.ip_block :
                    b.name = name /\ IfNull(b.variant) = IfNull(variant)}
    IN  IF found # {}
        THEN LET row == CHOOSE b \in found : TRUE
             IN  [conn |-> [c EXCEPT !.ip_block =
                              (@ \ {row}) \cup {[row EXCEPT !.base_addr = base_addr]}],
                  id |-> row.id]
        ELSE LET c1 == Insert(c, "ip_block",
                          [name |-> name, base_addr |-> base_addr, variant |-> variant])
             IN  [conn |-> c1, id |-> LastRowid(c1, "ip_block")]

\* DELETE FROM reg WHERE block_id=? that leaves the rows in place
DeleteRegsNothing(c, block_id) == c

\* DELETE FROM reg WHERE block_id=?; ON DELETE CASCADE acts only on a
\* connection whose foreign_keys pragma is on
DeleteRegs(c, block_id) ==
    LET gone   == {r.id : r \in {x \in c.reg : x.block_id = block_id}}
        fgone  == {f.id : f \in {x \in c.field : x.reg_id \in gone}}
    IN  IF c.foreign_keys
        THEN [c EXCEPT !.reg = {r \in @ : r.id \notin gone},
                       !.field = {f \in @ : f.id \notin fgone},
                       !.enum_value = {e \in @ : e.field_id \notin fgone}]
        ELSE [c EXCEPT !.reg = {r \in @ : r.id \notin gone}]

\* the loop over f.enum; ux_enum_field_value is unique on (field_id, value)
RECURSIVE InsertEnums(_, _, _)
InsertEnums(c, field_id, evs) ==
    IF c.err # "" \/ evs = <<>> THEN c
    ELSE LET ev == Head(evs)
         IN  IF \E x \in c.enum_value : x.field_id = field_id /\ x.value = ev.value
             THEN Raise(c, "IntegrityError")
             ELSE InsertEnums(
                    Insert(c, "enum_value",
                           [field_id |-> field_id, name |-> ev.name, value |-> ev.value]),
                    field_id, Tail(evs))

\* the loop over r.fields; ux_field_reg_name is unique on (reg_id, name)
RECURSIVE InsertFields(_, _, _)
InsertFields(c, reg_id, fs) ==
    IF c.err # "" \/ fs = <<>> THEN c
    ELSE LET f == Head(fs)
         IN  IF \E x \in c.field : x.reg_id = reg_id /\ x.name = f.name
             THEN Raise(c, "IntegrityError")
             ELSE LET c1 == Insert(c, "field",
                              [reg_id |-> reg_id, name |-> f.name, lsb |-> f.lsb,
                               msb |-> f.msb, access |-> f.access, reset |-> f.reset])
                      c2 == IF f.enum.null \/ f.enum.items = <<>> THEN c1
                            ELSE InsertEnums(c1, LastRowid(c1, "field"), f.enum.items)
                  IN  InsertFields(c2, reg_id, Tail(fs))

\* the loop over blk.registers; ux_reg_block_name and ux_reg_block_offset
\* are unique on (block_id, name) and (block_id, offset)
RECURSIVE InsertRegs(_, _, _)
InsertRegs(c, block_id, rs) ==
    IF c.err # "" \/ rs = <<>> THEN c
    ELSE LET r == Head(rs)
         IN  IF \E x \in c.reg : x.block_id = block_id
                                  /\ (x.name = r.name \/ x.offset = r.offset)
             THEN Raise(c, "IntegrityError")
             ELSE LET c1 == Insert(c, "reg",
                              [block_id |-> block_id, name |-> r.name,
                               offset |-> r.offset, width |-> r.width])
                      c2 == InsertFields(c1, LastRowid(c1, "reg"), r.fields)
                  IN  InsertRegs(c2, block_id, Tail(rs))

\* the loop over doc.ip_blocks
RECURSIVE UpsertBlocks(_, _, _)
UpsertBlocks(c, variant, blks) ==
    IF c.err # "" \/ blks = <<>> THEN c
    ELSE LET blk == Head(blks)
             g   == GetOrCreateBlock(c, blk.name, blk.base_addr, variant)
             c1  == DeleteRegs(g.conn, g.id)
             c2  == InsertRegs(c1, g.id, blk.registers)
         IN  UpsertBlocks(c2, variant, Tail(blks))

\* json.dumps(match, sort_keys=True): the items of the dict in key order
JsonDumps(match) ==
    CHOOSE s \in OrderBy({[k |-> <<Ord(kv[1])>>, row |-> kv] : kv \in Range(match)}) : TRUE

\* json.loads: the dict (a set of items) of a dumped object
JsonLoads(text) == Range(text)

\* the loop over doc.constraints
RECURSIVE InsertConstraints(_, _)
InsertConstraints(c, cs) ==
    IF c.err # "" \/ cs = <<>> THEN c
    ELSE LET k == Head(cs)
         IN  InsertConstraints(
               Insert(c, "constraint_def",
                      [name |-> k.name, applies_to |-> k.applies_to,
                       match_json |-> JsonDumps(k.match), rule |-> k.rule,
                       severity |-> k.severity]),
               Tail(cs))

\* constraints appended without the DELETE FROM constraint_def
ReplaceConstraintsKeep(c, cs) == InsertConstraints(c, cs)

\* DELETE FROM constraint_def, then the inserts
ReplaceConstraints(c, cs) ==
    IF c.err # "" THEN c
    ELSE InsertConstraints([c EXCEPT !.constraint_def = {}], cs)

\* upsert_spec_bundle
UpsertSpecBundle(c, b) ==
    ReplaceConstraints(UpsertBlocks(c, b.variant_name, b.doc.ip_blocks),
                       b.doc.constraints)

\* write_spec_version (created_at left out)
WriteSpecVersion(c, version, variant, git_commit) ==
    IF c.err # "" THEN c
    ELSE Insert(c, "spec_version",
                [version |-> version, variant |-> variant, git_commit |-> git_commit])

(***************************************************************************)
(* validate.py                                                             *)
(***************************************************************************)
\* the dataclass: positional arguments bind in the order severity, code,
\* message, context
ValidationIssue(severity, code, message, context) ==
    [severity |-> severity, code |-> code, message |-> message, context |-> context]

\* _field_width
FieldWidth(lsb, msb) == (msb - lsb) + 1

\* 1 << n (Python raises ValueError for n < 0)
ShiftLeftRaises(n) == n < 0

ShiftLeft(a, n) == a * (2 ^ n)

\* the first SELECT with ORDER BY b.name, r.name only
JoinRowsNoLsb(d) ==
    {[k |-> <<Ord(b.name), Ord(r.name)>>,
      row |-> [block_name |-> b.name, reg_name |-> r.name, reg_width |-> r.width,
               field_name |-> f.name, lsb |-> f.lsb, msb |-> f.msb,
               reset |-> f.reset, rowid |-> f.id]] :
        <<f, r, b>> \in {t \in d.field \X d.reg \X d.ip_block :
                           t[2].id = t[1].reg_id /\ t[3].id = t[2].block_id}}

\* the first SELECT: field JOIN reg JOIN ip_block, with its ORDER BY key
\* (rowid tells equal rows of different fields apart)
JoinRows(d) ==
    {[k |-> <<Ord(b.name), Ord(r.name), f.lsb>>,
      row |-> [block_name |-> b.name, reg_name |-> r.name, reg_width |-> r.width,
               field_name |-> f.name, lsb |-> f.lsb, msb |-> f.msb,
               reset |-> f.reset, rowid |-> f.id]] :
        <<f, r, b>> \in {t \in d.field \X d.reg \X d.ip_block :
                           t[2].id = t[1].reg_id /\ t[3].id = t[2].block_id}}

\* FIELD_RANGE test that forgets the lower bound
OutsideRegisterMsbOnly(row) == row.msb >= row.reg_width

\* "within reg width"
OutsideRegister(row) == row.lsb < 0 \/ row.msb >= row.reg_width

\* RESET_WIDTH test against the register's width instead of the field's
ResetDoesNotFitRegWidth(row) ==
    row.reset < 0 \/ row.reset > ShiftLeft(1, row.reg_width) - 1

\* "reset fits"
ResetDoesNotFit(row) ==
    LET max_val == ShiftLeft(1, FieldWidth(row.lsb, row.msb)) - 1
    IN  row.reset < 0 \/ row.reset > max_val

\* f"{blk}.{reg}.{field}" and f"{block}.{reg}": the names joined by "."; like
\* the other formatted strings, a record of the literal text and the values
Dotted(parts) == [text |-> ".", parts |-> parts]

\* the body of "for row in rows" once 1 << fw has not raised
RowIssues(row) ==
    LET fw      == FieldWidth(row.lsb, row.msb)
        max_val == ShiftLeft(1, fw) - 1
        where   == Dotted(<<row.block_name, row.reg_name, row.field_name>>)
    IN  (IF OutsideRegister(row)
         THEN <<ValidationIssue("ERROR", "FIELD_RANGE", where,
                  [text |-> "outside register width", msb |-> row.msb,
                   lsb |-> row.lsb, reg_width |-> row.reg_width])>>
         ELSE <<>>)
        \o
        (IF ResetDoesNotFit(row)
         THEN <<ValidationIssue("ERROR", "RESET_WIDTH", where,
                  [text |-> "does not fit width", reset |-> row.reset,
                   fw |-> fw, max_val |-> max_val])>>
         ELSE <<>>)

RECURSIVE FieldLoop(_)
FieldLoop(rows) ==
    IF rows = <<>> THEN <<>> ELSE RowIssues(Head(rows)) \o FieldLoop(Tail(rows))

\* the second SELECT (no ORDER BY): reg JOIN ip_block
RegRows(d) ==
    {[k |-> <<>>,
      row |-> [id |-> r.id, block_name |-> b.name, reg_name |-> r.name, width |-> r.width]] :
        <<r, b>> \in {t \in d.reg \X d.ip_block : t[2].id = t[1].block_id}}

\* SELECT name, lsb, msb FROM field WHERE reg_id=? ORDER BY lsb
OverlapFieldRows(d, reg_id) ==
    {[k |-> <<f.lsb>>, row |-> [name |-> f.name, lsb |-> f.lsb, msb |-> f.msb]] :
        f \in {x \in d.field : x.reg_id = reg_id}}

\* overlap test that also counts touching ranges
OverlapsTouching(f, o) == ~(f.msb + 1 < o.lsb \/ f.lsb > o.msb + 1)

\* not (f.msb < ol or f.lsb > om)
Overlaps(f, o) == ~(f.msb < o.lsb \/ f.lsb > o.msb)

\* "for (ol, om, oname) in occupied"
RECURSIVE AgainstOccupied(_, _, _)
AgainstOccupied(rr, f, occupied) ==
    IF occupied = <<>> THEN <<>>
    ELSE LET o == Head(occupied)
         IN  (IF Overlaps(f, o)
              THEN <<ValidationIssue("ERROR", "FIELD_OVERLAP",
                       Dotted(<<rr.block_name, rr.reg_name>>),
                       [text |-> "overlaps",
                        field |-> [name |-> f.name, msb |-> f.msb, lsb |-> f.lsb],
                        other |-> [name |-> o.name, msb |-> o.msb, lsb |-> o.lsb]])>>
              ELSE <<>>)
             \o AgainstOccupied(rr, f, Tail(occupied))

\* "for f in fields": compare with every range accepted so far, then accept
RECURSIVE FieldSweep(_, _, _)
FieldSweep(rr, fields, occupied) ==
    IF fields = <<>> THEN <<>>
    ELSE AgainstOccupied(rr, Head(fields), occupied)
         \o FieldSweep(rr, Tail(fields), Append(occupied, Head(fields)))

\* the issue lists the sweep of one register can give
RegOverlapLists(d, rr) ==
    {FieldSweep(rr, fields, <<>>) : fields \in OrderBy(OverlapFieldRows(d, rr.id))}

\* "for rr in regs"
RECURSIVE OverlapLists(_, _)
OverlapLists(d, regs) ==
    IF regs = <<>> THEN {<<>>}
    ELSE {a \o b : a \in RegOverlapLists(d, Head(regs)),
                   b \in OverlapLists(d, Tail(regs))}

ValidationResult(issues) == [kind |-> "validate", raised |-> FALSE, issues |-> issues]

ValidationRaised == [kind |-> "validate", raised |-> TRUE, issues |-> <<>>]

\* validate_db: the results it can return on the store d
ValidateDb(d) ==
    IF \E j \in JoinRows(d) : ShiftLeftRaises(FieldWidth(j.row.lsb, j.row.msb))
    THEN {ValidationRaised}
    ELSE {ValidationResult(a \o b) :
            a \in {FieldLoop(rows) : rows \in OrderBy(JoinRows(d))},
            b \in UNION {OverlapLists(d, regs) : regs \in OrderBy(RegRows(d))}}

\* str.upper on a severity
Upper(s) == IF s \in {"error", "Error"} THEN "ERROR" ELSE s

\* ValidationResult.error_count
RECURSIVE ErrorCount(_)
ErrorCount(issues) ==
    IF issues = <<>> THEN 0
    ELSE (IF Upper(Head(issues).severity) = "ERROR" THEN 1 ELSE 0)
         + ErrorCount(Tail(issues))

\* ValidationResult.summary
Summary(issues) == [issues |-> Len(issues), errors |-> ErrorCount(issues)]

\* s.replace("\n", " ") on one name or literal text
ReplaceLf(s) == IF s = "\n" THEN " " ELSE s

\* .replace("\n", " ") on a formatted string: on its literal text and on the
\* names it carries (numbers print without line feeds)
ReplaceNewlines(v) ==
    IF "parts" \in DOMAIN v
    THEN [text |-> ReplaceLf(v.text),
          parts |-> [k \in DOMAIN v.parts |-> ReplaceLf(v.parts[k])]]
    ELSE IF "field" \in DOMAIN v
    THEN [v EXCEPT !.text = ReplaceLf(@),
                   !.field.name = ReplaceLf(@),
                   !.other.name = ReplaceLf(@)]
    ELSE [v EXCEPT !.text = ReplaceLf(@)]

\* the column titles of the report table, left to right
TableHeader == <<"Severity", "Code", "Context", "Message">>

\* one table line: | severity | code | ctx | msg |
TableRow(i) ==
    LET ctx == ReplaceNewlines(i.context)
        msg == ReplaceNewlines(i.message)
    IN  <<i.severity, i.code, ctx, msg>>

\* ValidationResult.to_markdown
ToMarkdown(issues) ==
    IF issues = <<>>
    THEN [summary |-> Summary(issues), empty |-> TRUE,
          header |-> <<>>, rows |-> <<>>]
    ELSE [summary |-> Summary(issues), empty |-> FALSE,
          header |-> TableHeader,
          rows |-> [n \in 1..Len(issues) |-> TableRow(issues[n])]]

(***************************************************************************)
(* export_json.py                                                          *)
(***************************************************************************)
\* SELECT ... FROM ip_block ORDER BY name
BlockRows(d) == {[k |-> <<Ord(b.name)>>, row |-> b] : b \in d.ip_block}

\* SELECT ... FROM reg WHERE block_id=? ORDER BY offset
RegRowsOf(d, block_id) ==
    {[k |-> <<r.offset>>, row |-> r] : r \in {x \in d.reg : x.block_id = block_id}}

\* SELECT ... FROM field WHERE reg_id=? ORDER BY lsb
FieldRowsOf(d, reg_id) ==
    {[k |-> <<f.lsb>>, row |-> f] : f \in {x \in d.field : x.reg_id = reg_id}}

\* SELECT name, value FROM enum_value WHERE field_id=? ORDER BY value
EnumRowsOf(d, field_id) ==
    {[k |-> <<e.value>>, row |-> [name |-> e.name, value |-> e.value]] :
        e \in {x \in d.enum_value : x.field_id = field_id}}

JsonNull == [null |-> TRUE, items |-> <<>>]

\* "[...] if enums else None"
JsonEnum(enums) == IF enums = <<>> THEN JsonNull ELSE [null |-> FALSE, items |-> enums]

JsonFieldObjs(d, f) ==
    {[name |-> f.name, lsb |-> f.lsb, msb |-> f.msb, access |-> f.access,
      reset |-> f.reset, enum |-> JsonEnum(enums)] :
        enums \in OrderBy(EnumRowsOf(d, f.id))}

RECURSIVE JsonFieldLists(_, _)
JsonFieldLists(d, fields) ==
    IF fields = <<>> THEN {<<>>}
    ELSE {<<o>> \o t : o \in JsonFieldObjs(d, Head(fields)),
                       t \in JsonFieldLists(d, Tail(fields))}

JsonRegObjs(d, r) ==
    {[name |-> r.name, offset |-> r.offset, width |-> r.width, fields |-> fl] :
        fl \in UNION {JsonFieldLists(d, fields) : fields \in OrderBy(FieldRowsOf(d, r.id))}}

RECURSIVE JsonRegLists(_, _)
JsonRegLists(d, regs) ==
    IF regs = <<>> THEN {<<>>}
    ELSE {<<o>> \o t : o \in JsonRegObjs(d, Head(regs)),
                       t \in JsonRegLists(d, Tail(regs))}

JsonBlockObjs(d, b) ==
    {[name |-> b.name, base_addr |-> b.base_addr, variant |-> b.variant,
      registers |-> rl] :
        rl \in UNION {JsonRegLists(d, regs) : regs \in OrderBy(RegRowsOf(d, b.id))}}

RECURSIVE JsonBlockLists(_, _)
JsonBlockLists(d, blocks) ==
    IF blocks = <<>> THEN {<<>>}
    ELSE {<<o>> \o t : o \in JsonBlockObjs(d, Head(blocks)),
                       t \in JsonBlockLists(d, Tail(blocks))}

\* export_registers_json: the documents it can write for the store d
ExportRegistersJson(d) ==
    {[ip_blocks |-> bl] :
        bl \in UNION {JsonBlockLists(d, blocks) : blocks \in OrderBy(BlockRows(d))}}

(***************************************************************************)
(* export_xml.py                                                           *)
(***************************************************************************)
\* the digits of n >= 0 in the given base, most significant first
RECURSIVE Digits(_, _)
Digits(n, base) ==
    IF n < base THEN <<n>> ELSE Append(Digits(n \div base, base), n % base)

\* str(n)
Str(n) ==
    IF n < 0 THEN [sign |-> "-", prefix |-> "", digits |-> Digits(0 - n, 10)]
    ELSE [sign |-> "", prefix |-> "", digits |-> Digits(n, 10)]

\* hex(n)
Hex(n) ==
    IF n < 0 THEN [sign |-> "-", prefix |-> "0x", digits |-> Digits(0 - n, 16)]
    ELSE [sign |-> "", prefix |-> "0x", digits |-> Digits(n, 16)]

\* b["variant"] or ""
OrEmpty(x) == IF x = NULL \/ x = "" THEN "" ELSE x

Element(tag, attrib, children) == [tag |-> tag, attrib |-> attrib, children |-> children]

RECURSIVE XmlValues(_)
XmlValues(enums) ==
    IF enums = <<>> THEN <<>>
    ELSE <<Element("value", [name |-> Head(enums).name, value |-> Str(Head(enums).value)],
                   <<>>)>> \o XmlValues(Tail(enums))

XmlFieldEls(d, f) ==
    {Element("field",
             [name |-> f.name, lsb |-> Str(f.lsb), msb |-> Str(f.msb),
              access |-> f.access, reset |-> Str(f.reset)],
             IF enums = <<>> THEN <<>>
             ELSE <<Element("enum", <<>>, XmlValues(enums))>>) :
        enums \in OrderBy(EnumRowsOf(d, f.id))}

RECURSIVE XmlFieldLists(_, _)
XmlFieldLists(d, fields) ==
    IF fields = <<>> THEN {<<>>}
    ELSE {<<o>> \o t : o \in XmlFieldEls(d, Head(fields)),
                       t \in XmlFieldLists(d, Tail(fields))}

XmlRegEls(d, r) ==
    {Element("register",
             [name |-> r.name, offset |-> Hex(r.offset), width |-> Str(r.width)], fl) :
        fl \in UNION {XmlFieldLists(d, fields) : fields \in OrderBy(FieldRowsOf(d, r.id))}}

RECURSIVE XmlRegLists(_, _)
XmlRegLists(d, regs) ==
    IF regs = <<>> THEN {<<>>}
    ELSE {<<o>> \o t : o \in XmlRegEls(d, Head(regs)),
                       t \in XmlRegLists(d, Tail(regs))}

XmlBlockEls(d, b) ==
    {Element("ip_block",
             [name |-> b.name, base_addr |-> Hex(b.base_addr),
              variant |-> OrEmpty(b.variant)], rl) :
        rl \in UNION {XmlRegLists(d, regs) : regs \in OrderBy(RegRowsOf(d, b.id))}}

RECURSIVE XmlBlockLists(_, _)
XmlBlockLists(d, blocks) ==
    IF blocks = <<>> THEN {<<>>}
    ELSE {<<o>> \o t : o \in XmlBlockEls(d, Head(blocks)),
                       t \in XmlBlockLists(d, Tail(blocks))}

\* export_registers_xml: the trees it can write for the store d
ExportRegistersXml(d) ==
    {Element("spec", <<>>, bl) :
        bl \in UNION {XmlBlockLists(d, blocks) : blocks \in OrderBy(BlockRows(d))}}

(***************************************************************************)
(* Input documents of the ingest command.                                  *)
(***************************************************************************)
FieldDef(name, lsb, msb, access, reset, enum) ==
    [name |-> name, lsb |-> lsb, msb |-> msb, access |-> access,
     reset |-> reset, enum |-> enum]

RegisterDef(name, offset, width, fields) ==
    [name |-> name, offset |-> offset, width |-> width, fields |-> fields]

IPBlockDef(name, base_addr, registers) ==
    [name |-> name, base_addr |-> base_addr, registers |-> registers]

ConstraintDef(name, applies_to, match, rule, severity) ==
    [name |-> name, applies_to |-> applies_to, match |-> match, rule |-> rule,
     severity |-> severity]

SpecDoc(ip_blocks, constraints) ==
    [spec_version |-> "1.0", ip_blocks |-> ip_blocks, constraints |-> constraints]

RawSpec(variant, doc) == [variant |-> variant, doc |-> doc]

Variants == {NULL, "v1"}

fF == FieldDef("F", 0, 1, "RW", 0,
               EnumList(<<EnumValue("ON", 1), EnumValue("OFF", 0)>>))
fG == FieldDef("G", 0, 1, "RO", 0, NoEnum)
fH == FieldDef("H", 2, 3, "RW", 4, NoEnum)
\* two enumerants with one value
fDupEnum == FieldDef("F", 0, 1, "RW", 0,
                     EnumList(<<EnumValue("ON", 1), EnumValue("ALSO", 1)>>))
\* msb < lsb
fInverted == FieldDef("G", 2, 0, "RW", 0, NoEnum)

FieldLists ==
    {<<>>, <<fF>>, <<fH, fF>>, <<fF, fG>>, <<fF, fF>>, <<fDupEnum>>, <<fInverted>>}

RegLists ==
    {<<>>}
    \cup {<<RegisterDef("R", 4, 4, fl)>> : fl \in FieldLists}
    \cup {<<RegisterDef("R", 4, 4, <<fF>>), RegisterDef(n, o, 4, <<fG>>)>> :
            n \in {"R", "S"}, o \in {0, 4}}

\* documents ingested without a variant overlay
BlockLists ==
    {<<IPBlockDef("A", 0, rl)>> : rl \in RegLists}
    \cup {<<IPBlockDef("A", 16, <<RegisterDef("R", 4, 4, <<fF>>)>>)>>,
          <<IPBlockDef("B", 0, <<RegisterDef("R", 4, 4, <<fH>>)>>),
            IPBlockDef("A", 0, <<RegisterDef("R", 4, 4, <<fF>>)>>)>>}

\* documents ingested under the variant overlay
BlockListsOfVariant ==
    {<<IPBlockDef("A", 0, <<RegisterDef("R", 4, 4, fl)>>)>> : fl \in {<<fF>>, <<fH, fF>>}}

c1 == ConstraintDef("c1", "field", <<<<"name", "F">>, <<"access", "RW">>>>, "r1", "ERROR")
c2 == ConstraintDef("c2", "reg", <<>>, "r2", "WARN")

ConstraintLists == {<<c1>>, <<c2, c1>>}

RawSpecs ==
    {RawSpec(NULL, SpecDoc(bl, <<>>)) : bl \in BlockLists}
    \cup {RawSpec("v1", SpecDoc(bl, <<>>)) : bl \in BlockListsOfVariant}
    \cup {RawSpec(v, SpecDoc(<<IPBlockDef("A", 0, <<RegisterDef("R", 4, 4, <<fF>>)>>)>>, cl)) :
            v \in Variants, cl \in ConstraintLists}

(***************************************************************************)
(* cli.py                                                                  *)
(***************************************************************************)
NoBundle == [none |-> TRUE]

NoResult == [kind |-> "none"]

Init ==
    /\ db = EmptyDb
    /\ cmd = "init"
    /\ status = "ok"
    /\ bundle = NoBundle
    /\ result = NoResult

\* init: CREATE TABLE IF NOT EXISTS on the existing file
InitCmd ==
    /\ cmd' = "init"
    /\ status' = "ok"
    /\ result' = NoResult
    /\ bundle' = NoBundle
    /\ UNCHANGED db

\* the store a run of ingest leaves: [db, status]
IngestRun(d, raw) ==
    LET b == LoadSpecBundle(raw)
    IN  IF ~b.ok THEN [db |-> d, status |-> "ValidationError"]
        ELSE LET c == WriteSpecVersion(UpsertSpecBundle(ConnectDb(d), b),
                                       b.doc.spec_version, b.variant_name, NULL)
             IN  [db |-> ConnectDbExit(d, c),
                  status |-> IF c.err = "" THEN "ok" ELSE c.err]

\* ingest
Ingest(raw) ==
    /\ db.sqlite_sequence["spec_version"] < MaxIngests
    /\ LET r == IngestRun(db, raw)
       IN  /\ db' = r.db
           /\ status' = r.status
    /\ cmd' = "ingest"
    /\ bundle' = raw
    /\ result' = NoResult

\* validate
Written(doc) == [written |-> TRUE, doc |-> doc]

NotWritten == [written |-> FALSE]

\* validate, with or without --report; the report is written only when
\* validate_db has returned
Validate ==
    /\ \E r \in ValidateDb(db), report \in BOOLEAN :
         /\ result' = [kind |-> r.kind, raised |-> r.raised, issues |-> r.issues,
                       report |-> IF report /\ ~r.raised
                                  THEN Written(ToMarkdown(r.issues))
                                  ELSE NotWritten]
         /\ status' = IF r.raised THEN "ValueError" ELSE "ok"
    /\ cmd' = "validate"
    /\ bundle' = NoBundle
    /\ UNCHANGED db

\* export with its default options: registers.json, then registers.xml
Export ==
    /\ \E j \in ExportRegistersJson(db), x \in ExportRegistersXml(db) :
         result' = [kind |-> "export", json |-> Written(j), xml |-> Written(x)]
    /\ cmd' = "export"
    /\ status' = "ok"
    /\ bundle' = NoBundle
    /\ UNCHANGED db

Next ==
    \/ InitCmd
    \/ \E raw \in RawSpecs : Ingest(raw)
    \/ Validate
    \/ Export

Spec == Init /\ [][Next]_vars

(***************************************************************************)
(* Stores for the validation pass: one ingest of a document whose fields   *)
(* take every bit range and reset value of the bounds, into a new store or *)
(* into one that already holds the block.                                  *)
(***************************************************************************)
Lsbs == (0 - 1)..1

Msbs == 0..2

Widths == {2, 3}

\* up to one more than the widest field (bits -1..2) can hold
Resets == (0 - 1)..16

FieldNamesV == <<"F", "G", "H", "I">>

BitRanges == Lsbs \X Msbs

FieldSeqsV(n) ==
    {[i \in 1..n |-> FieldDef(FieldNamesV[i], p[i][1], p[i][2], "RW", 0, NoEnum)] :
        p \in [1..n -> BitRanges]}

OneBlock(regs) == RawSpec(NULL, SpecDoc(<<IPBlockDef("A", 0, regs)>>, <<>>))

\* one register of 2 bits, up to MaxFields fields over all bit ranges
RawSpecsRanges ==
    {OneBlock(<<RegisterDef("R", 0, 2, fs)>>) :
        fs \in UNION {FieldSeqsV(n) : n \in 1..MaxFields}}

\* one register, a field over all bit ranges and resets, alone or beside G[0:0]
RawSpecsResets ==
    {OneBlock(<<RegisterDef("R", 0, w,
                  <<FieldDef("F", p[1], p[2], "RW", reset, NoEnum)>> \o more)>>) :
        w \in Widths, p \in BitRanges, reset \in Resets,
        more \in {<<>>, <<FieldDef("G", 0, 0, "RW", 0, NoEnum)>>}}

TwoFieldLists ==
    {<<FieldDef("F", p[1], p[2], "RW", 0, NoEnum),
       FieldDef("G", q[1], q[2], "RW", 0, NoEnum)>> :
        p \in {<<0, 1>>, <<1, 2>>}, q \in {<<0, 1>>, <<1, 2>>}}

\* two registers of one block, or one register in each of two blocks, in
\* either document order
RawSpecsTwo ==
    {OneBlock(<<RegisterDef(n[1], 0, 2, fl1), RegisterDef(n[2], 4, 3, fl2)>>) :
        n \in {<<"R", "S">>, <<"S", "R">>}, fl1 \in TwoFieldLists, fl2 \in FieldSeqsV(1)}
    \cup
    {RawSpec(NULL, SpecDoc(<<IPBlockDef(n[1], 0, <<RegisterDef("R", 0, 2, fl1)>>),
                             IPBlockDef(n[2], 0, <<RegisterDef("R", 0, 3, fl2)>>)>>,
                           <<>>)) :
        n \in {<<"A", "B">>, <<"B", "A">>}, fl1 \in TwoFieldLists, fl2 \in FieldSeqsV(1)}

RawSpecsV == RawSpecsRanges \cup RawSpecsResets \cup RawSpecsTwo

\* an earlier ingest of block A: its fields are out of range, overlap and
\* carry a reset that does not fit
PriorSpec ==
    OneBlock(<<RegisterDef("R", 0, 2,
                 <<FieldDef("F", 0 - 1, 2, "RW", 0, NoEnum),
                   FieldDef("G", 0, 0, "RW", 2, NoEnum)>>)>>)

PriorStoresV == {EmptyDb, IngestRun(EmptyDb, PriorSpec).db}

InitV ==
    \E prior \in PriorStoresV, raw \in RawSpecsV :
       LET r == IngestRun(prior, raw)
       IN  /\ r.status = "ok"
           /\ db = r.db
           /\ cmd = "ingest"
           /\ status = "ok"
           /\ bundle = raw
           /\ result = NoResult

\* validate is run once on the ingested store
NextV == cmd = "ingest" /\ Validate

SpecV == InitV /\ [][NextV]_vars

(***************************************************************************)
(* The store as the read queries show it: blocks, their registers, fields  *)
(* and enum values by content, without row ids, each with its row count.   *)
(***************************************************************************)
ViewEnums(d, field_id) ==
    {[name |-> e.name, value |-> e.value] : e \in {x \in d.enum_value : x.field_id = field_id}}

ViewFields(d, reg_id) ==
    {[name |-> f.name, lsb |-> f.lsb, msb |-> f.msb, access |-> f.access,
      reset |-> f.reset, enum |-> ViewEnums(d, f.id),
      nenum |-> Cardinality({x \in d.enum_value : x.field_id = f.id})] :
        f \in {x \in d.field : x.reg_id = reg_id}}

ViewRegs(d, block_id) ==
    {[name |-> r.name, offset |-> r.offset, width |-> r.width,
      fields |-> ViewFields(d, r.id),
      nfields |-> Cardinality({x \in d.field : x.reg_id = r.id})] :
        r \in {x \in d.reg : x.block_id = block_id}}

View(d) ==
    {[name |-> b.name, variant |-> IfNull(b.variant), base_addr |-> b.base_addr,
      registers |-> ViewRegs(d, b.id),
      nregs |-> Cardinality({x \in d.reg : x.block_id = b.id})] : b \in d.ip_block}

\* what a document supplies for its blocks (a block named twice: the last one)
DocFields(fs) ==
    {[name |-> f.name, lsb |-> f.lsb, msb |-> f.msb, access |-> f.access,
      reset |-> f.reset, enum |-> Range(f.enum.items), nenum |-> Len(f.enum.items)] :
        f \in Range(fs)}

DocRegs(rs) ==
    {[name |-> r.name, offset |-> r.offset, width |-> r.width,
      fields |-> DocFields(r.fields), nfields |-> Len(r.fields)] : r \in Range(rs)}

DocView(raw) ==
    LET blks == raw.doc.ip_blocks
    IN  {[name |-> blks[i].name, variant |-> IfNull(raw.variant),
          base_addr |-> blks[i].base_addr,
          registers |-> DocRegs(blks[i].registers),
          nregs |-> Len(blks[i].registers)] :
            i \in {j \in 1..Len(blks) :
                     \A m \in (j+1)..Len(blks) : blks[m].name # blks[j].name}}

IngestOk == cmd = "ingest" /\ status = "ok"

\* the connection of the last ingest as it stood when its body ended
LastTransaction == UpsertSpecBundle(ConnectDb(db), LoadSpecBundle(bundle))

(***************************************************************************)
(* Reading a validation result.  validate_db passes the dotted location as *)
(* the third positional argument and the text as the fourth.               *)
(***************************************************************************)
Issues == result.issues

Where(i) == Issues[i].message.parts

Text(i) == Issues[i].context

IssuesWith(code) == {i \in 1..Len(Issues) : Issues[i].code = code}

Validated == cmd = "validate" /\ ~result.raised

\* the registers validate can see, and the fields of one of them
LiveRegs == {x.row : x \in RegRows(db)}

FieldsOfReg(reg_id) == {x.row : x \in OverlapFieldRows(db, reg_id)}

LiveFields == {x.row : x \in JoinRows(db)}

\* two inclusive bit ranges share a bit
Intersect(f, g) == \E bit \in f.lsb..f.msb : bit \in g.lsb..g.msb

\* the unordered pairs of fields of a register whose ranges intersect
IntersectingPairs(reg_id) ==
    {p \in SUBSET FieldsOfReg(reg_id) :
        Cardinality(p) = 2 /\ \A f \in p : \A g \in p \ {f} : Intersect(f, g)}

PairOf(t) ==
    {[name |-> t.field.name, lsb |-> t.field.lsb, msb |-> t.field.msb],
     [name |-> t.other.name, lsb |-> t.other.lsb, msb |-> t.other.msb]}

(***************************************************************************)
(* C1. For every register and every unordered pair of distinct fields of   *)
(* it, validate reports one FIELD_OVERLAP issue for the pair if their      *)
(* inclusive ranges intersect and none if they do not; there are no other  *)
(* FIELD_OVERLAP issues.  (Issues name a register by block and register    *)
(* name, so registers of equally named blocks are counted together.)       *)
(***************************************************************************)
C1_OverlapIffIntersect ==
    Validated =>
      /\ \A rr \in LiveRegs :
           \A p \in {q \in SUBSET FieldsOfReg(rr.id) : Cardinality(q) = 2} :
              Cardinality({i \in IssuesWith("FIELD_OVERLAP") :
                             /\ Where(i) = <<rr.block_name, rr.reg_name>>
                             /\ PairOf(Text(i)) = p})
              = Cardinality({r2 \in LiveRegs :
                               /\ r2.block_name = rr.block_name
                               /\ r2.reg_name = rr.reg_name
                               /\ p \in IntersectingPairs(r2.id)})
      /\ Cardinality(IssuesWith("FIELD_OVERLAP"))
         = Cardinality({x \in LiveRegs \X SUBSET {[name |-> f.name, lsb |-> f.lsb, msb |-> f.msb] : f \in db.field} :
                          x[2] \in IntersectingPairs(x[1].id)})

\* a register with three mutually intersecting fields has been validated:
\* three issues
C1_Witness ==
    /\ Validated
    /\ \E rr \in LiveRegs :
         /\ Cardinality(FieldsOfReg(rr.id)) = 3
         /\ Cardinality(IntersectingPairs(rr.id)) = 3
         /\ Cardinality(IssuesWith("FIELD_OVERLAP")) = 3

\* the position of issue i: block name, register name, lsb of its field
IssueLsb(i) ==
    IF Issues[i].code = "FIELD_RANGE" THEN Text(i).lsb
    ELSE IF Issues[i].code = "FIELD_OVERLAP" THEN Text(i).field.lsb
    ELSE (CHOOSE f \in LiveFields :
            <<f.block_name, f.reg_name, f.field_name>> = Where(i)).lsb

Position(i) == <<Ord(Where(i)[1]), Ord(Where(i)[2]), IssueLsb(i)>>

(***************************************************************************)
(* C4 as stated.  Of any two issues, the one at the earlier (block name,   *)
(* register name, field lsb) position comes first, whatever their codes.   *)
(***************************************************************************)
C4_IssuesOrderedByPosition ==
    Validated =>
      \A i \in 1..Len(Issues) : \A j \in (i+1)..Len(Issues) :
         KeyLe(Position(i), Position(j))

(***************************************************************************)
(* C4 as amended.  The FIELD_RANGE and RESET_WIDTH issues come first, the  *)
(* one at the earlier (block name, register name, field lsb) position      *)
(* before the other; every FIELD_OVERLAP issue comes after all of them.    *)
(***************************************************************************)
C4_RangeResetOrderedThenOverlap ==
    Validated =>
      \A i \in 1..Len(Issues) : \A j \in (i+1)..Len(Issues) :
         /\ (Issues[i].code # "FIELD_OVERLAP" /\ Issues[j].code # "FIELD_OVERLAP")
               => KeyLe(Position(i), Position(j))
         /\ ~(Issues[i].code = "FIELD_OVERLAP" /\ Issues[j].code # "FIELD_OVERLAP")

\* a FIELD_OVERLAP issue follows an issue of a later position, and two
\* issues of the first pass stand at different positions
C4_Witness ==
    /\ Validated
    /\ \E i \in 1..Len(Issues) : \E j \in (i+1)..Len(Issues) :
         /\ Issues[j].code = "FIELD_OVERLAP"
         /\ ~KeyLe(Position(i), Position(j))
    /\ \E i \in 1..Len(Issues) : \E j \in (i+1)..Len(Issues) :
         /\ Issues[i].code # "FIELD_OVERLAP" /\ Issues[j].code # "FIELD_OVERLAP"
         /\ Position(i) # Position(j)

(***************************************************************************)
(* C5. For every field of a stored register, validate reports one          *)
(* RESET_WIDTH issue if reset < 0 or reset > 2^(msb-lsb+1) - 1 and none    *)
(* otherwise, whether or not the field is out of range or overlaps; there  *)
(* are no other RESET_WIDTH issues.                                        *)
(***************************************************************************)
ResetTooWide(f) == f.reset < 0 \/ f.reset > 2 ^ (f.msb - f.lsb + 1) - 1

C5_ResetWidthIff ==
    Validated =>
      /\ \A f \in LiveFields :
           Cardinality({i \in IssuesWith("RESET_WIDTH") :
                          /\ Where(i) = <<f.block_name, f.reg_name, f.field_name>>
                          /\ Text(i).reset = f.reset
                          /\ Text(i).fw = f.msb - f.lsb + 1})
           = Cardinality({g \in LiveFields :
                            /\ g.block_name = f.block_name /\ g.reg_name = f.reg_name
                            /\ g.field_name = f.field_name /\ g.reset = f.reset
                            /\ g.msb - g.lsb = f.msb - f.lsb
                            /\ ResetTooWide(g)})
      /\ Cardinality(IssuesWith("RESET_WIDTH"))
         = Cardinality({f \in LiveFields : ResetTooWide(f)})

\* register width 2, field [1:0] with reset 4 (one more than fits), beside
\* a field it overlaps: RESET_WIDTH and FIELD_OVERLAP both reported
C5_Witness ==
    /\ Validated
    /\ \E f \in LiveFields :
         /\ f.lsb = 0 /\ f.msb = 1 /\ f.reset = 4 /\ f.reg_width = 2
         /\ \E i \in IssuesWith("RESET_WIDTH") : Text(i).max_val = 3 /\ Text(i).reset = 4
    /\ IssuesWith("FIELD_OVERLAP") # {}

(***************************************************************************)
(* C6. For every field of a stored register, validate reports one          *)
(* FIELD_RANGE issue if lsb < 0 or msb >= the width of its register and    *)
(* none otherwise; there are no other FIELD_RANGE issues.                  *)
(***************************************************************************)
OutOfRange(f) == f.lsb < 0 \/ f.msb >= f.reg_width

C6_FieldRangeIff ==
    Validated =>
      /\ \A f \in LiveFields :
           Cardinality({i \in IssuesWith("FIELD_RANGE") :
                          /\ Where(i) = <<f.block_name, f.reg_name, f.field_name>>
                          /\ Text(i).lsb = f.lsb /\ Text(i).msb = f.msb
                          /\ Text(i).reg_width = f.reg_width})
           = Cardinality({g \in LiveFields :
                            /\ g.block_name = f.block_name /\ g.reg_name = f.reg_name
                            /\ g.field_name = f.field_name /\ g.lsb = f.lsb
                            /\ g.msb = f.msb /\ g.reg_width = f.reg_width
                            /\ OutOfRange(g)})
      /\ Cardinality(IssuesWith("FIELD_RANGE"))
         = Cardinality({f \in LiveFields : OutOfRange(f)})

\* a register holding a field below bit 0, a field past its width and a
\* field inside it has been validated, beside rows of a replaced register
C6_Witness ==
    /\ Validated
    /\ \E f \in LiveFields : f.lsb < 0 /\ f.msb < f.reg_width
    /\ \E f \in LiveFields : f.lsb >= 0 /\ f.msb >= f.reg_width
    /\ \E f \in LiveFields : f.lsb >= 0 /\ f.msb < f.reg_width
    /\ Cardinality(IssuesWith("FIELD_RANGE")) = 2
    /\ \E f \in db.field : \A r \in db.reg : r.id # f.reg_id

(***************************************************************************)
(* C2. Replacing a block's registers removes their fields and enum values: *)
(* no field row names a register that is gone, no enum value row names a   *)
(* field that is gone or whose register is gone, and after an ingest the   *)
(* blocks of its document list exactly the registers and fields supplied.  *)
(***************************************************************************)
C2_ReplaceCascades ==
    /\ \A f \in db.field : \E r \in db.reg : r.id = f.reg_id
    /\ \A e \in db.enum_value :
         \E f \in db.field : f.id = e.field_id /\ \E r \in db.reg : r.id = f.reg_id
    /\ IngestOk => DocView(bundle) \subseteq View(db)

(***************************************************************************)
(* C3. An ingest that fails leaves every table of the store as it was      *)
(* before the ingest started.                                              *)
(***************************************************************************)
C3_IngestAllOrNothing ==
    [][(cmd' = "ingest" /\ status' # "ok") => db' = db]_vars

\* a failed ingest whose transaction had already deleted and inserted rows
C3_Witness ==
    /\ cmd = "ingest"
    /\ status = "IntegrityError"
    /\ db.reg # {}
    /\ \E r \in db.reg : r \notin LastTransaction.reg
    /\ \E r \in LastTransaction.reg : r \notin db.reg

(***************************************************************************)
(* C7. Ingesting the bundle just ingested once more succeeds and leaves    *)
(* the store, seen through the read queries, as it was: one block row per  *)
(* (name, variant) with the latest base_addr and one copy of each of the   *)
(* document's registers, fields and enum values.                           *)
(***************************************************************************)
C7_IngestIdempotent ==
    [][(IngestOk /\ cmd' = "ingest" /\ bundle' = bundle) =>
         /\ status' = "ok"
         /\ View(db') = View(db)
         /\ DocView(bundle) \subseteq View(db')
         /\ \A b1, b2 \in db'.ip_block :
              (b1.name = b2.name /\ IfNull(b1.variant) = IfNull(b2.variant)) => b1 = b2]_vars

\* the same bundle has been ingested twice: the second run replaced the
\* registers of the first (their rowids are gone) under the same block row
C7_Witness ==
    /\ IngestOk
    /\ db.sqlite_sequence["spec_version"] = 2
    /\ \A v \in db.spec_version : v.variant = bundle.variant
    /\ DocView(bundle) = View(db)
    /\ Cardinality(db.ip_block) = 1
    /\ db.reg # {}
    /\ db.sqlite_sequence["reg"] = 2 * Cardinality(db.reg)
    /\ db.enum_value # {}

(***************************************************************************)
(* C8. After a successful ingest the constraint_def table holds exactly    *)
(* the constraints of that ingest's document, in document order, whatever  *)
(* blocks and variant the ingest carried.                                  *)
(***************************************************************************)
StoredConstraints ==
    CHOOSE s \in OrderBy({[k |-> <<c.id>>, row |-> c] : c \in db.constraint_def}) : TRUE

C8_ConstraintsReplaced ==
    IngestOk =>
      LET cs == bundle.doc.constraints
          st == StoredConstraints
      IN  /\ Len(st) = Len(cs)
          /\ \A i \in 1..Len(cs) :
               /\ st[i].name = cs[i].name
               /\ st[i].applies_to = cs[i].applies_to
               /\ JsonLoads(st[i].match_json) = Range(cs[i].match)
               /\ st[i].rule = cs[i].rule
               /\ st[i].severity = cs[i].severity

\* an ingest under a variant replaced constraints stored by an earlier one
C8_Witness ==
    /\ IngestOk
    /\ bundle.variant = "v1"
    /\ bundle.doc.constraints # <<>>
    /\ db.sqlite_sequence["constraint_def"] > Cardinality(db.constraint_def)

C10_ValidateCompletes ==
    /\ cmd = "validate" => (status = "ok" /\ ~result.raised)
    /\ \A f \in db.field : f.msb >= f.lsb
    /\ (cmd = "ingest" /\ ~SpecDocValid(bundle.doc)) => status = "ValidationError"

\* validate returned issues of the first and of the second pass on a store
\* that also holds rows of a replaced register
C10_Witness ==
    /\ cmd = "validate"
    /\ status = "ok"
    /\ \E i \in 1..Len(result.issues) : result.issues[i].code = "RESET_WIDTH"
    /\ \E i \in 1..Len(result.issues) : result.issues[i].code = "FIELD_OVERLAP"
    /\ \E f \in db.field : \A r \in db.reg : r.id # f.reg_id

(***************************************************************************)
(* C11. Every issue of a completed validate carries in context the dotted  *)
(* location of the offending entity (block.register.field of a stored      *)
(* field for FIELD_RANGE and RESET_WIDTH, block.register of a stored       *)
(* register for FIELD_OVERLAP) and in message the descriptive text of its  *)
(* code (for FIELD_OVERLAP with both field names and ranges); a written    *)
(* report has the columns Severity, Code, Context, Message and shows, line *)
(* by line, the location under Context and the text under Message.         *)
(***************************************************************************)
\* v is the dotted location an issue of this code is about
IsLocation(v, code) ==
    IF code = "FIELD_OVERLAP"
    THEN \E rr \in LiveRegs : v = Dotted(<<rr.block_name, rr.reg_name>>)
    ELSE \E f \in LiveFields :
             v = Dotted(<<f.block_name, f.reg_name, f.field_name>>)

\* the literal text of an issue's description
TextOf(code) ==
    CASE code = "FIELD_RANGE" -> "outside register width"
      [] code = "RESET_WIDTH" -> "does not fit width"
      [] code = "FIELD_OVERLAP" -> "overlaps"

\* v is the descriptive text of an issue of this code
IsDescription(v, code) ==
    /\ v.text = TextOf(code)
    /\ code = "FIELD_OVERLAP" =>
          \E rr \in LiveRegs : \E f, o \in FieldsOfReg(rr.id) :
              /\ v.field = [name |-> f.name, msb |-> f.msb, lsb |-> f.lsb]
              /\ v.other = [name |-> o.name, msb |-> o.msb, lsb |-> o.lsb]

C11_ContextLocationMessageText ==
    Validated =>
      \A i \in 1..Len(Issues) :
          /\ DOMAIN Issues[i] = {"severity", "code", "context", "message"}
          /\ IsLocation(Issues[i].context, Issues[i].code)
          /\ IsDescription(Issues[i].message, Issues[i].code)
          /\ result.report.written =>
                /\ result.report.doc.header = TableHeader
                /\ IsLocation(result.report.doc.rows[i][3], Issues[i].code)
                /\ IsDescription(result.report.doc.rows[i][4], Issues[i].code)

====
